---- MODULE Spec2Model ----
(***************************************************************************)
(* Model of app/internal_packages/onboarding/lib/onboarding-helpers.ts:    *)
(* the provider-resolution chain (expandAccountWithCommonSettings and the  *)
(* Thunderbird autoconfig source), identity hashing (idForAccount), the    *)
(* finalizer and the OAuth account builders.                               *)
(*                                                                         *)
(* Text is modelled as a sequence of tokens (a token is a TLA+ string), so *)
(* that split('@'), toLowerCase, trim, replace and JSON.stringify are      *)
(* computed rather than assumed.  A JavaScript object is a function whose  *)
(* DOMAIN is the set of its keys that hold a value; a key holding          *)
(* undefined is a key outside the DOMAIN.                                  *)
(***************************************************************************)
EXTENDS Integers, Sequences, FiniteSets, TLC

VARIABLES
    pc,                     \* position of the running call
    caller,                 \* the exported function that was called
    account,                \* the Account handed to the running function
    populated,              \* account.clone() of expandAccountWithCommonSettings
    mxRecords,              \* result of mxRecordsForDomain
    autoConfig,             \* result of getThunderbirdAutoconfig
    containerFolderDefault, \* AccountStore.containerFolderDefaultGetter()
    log,                    \* the I/O and table reads made so far, in order
    outcome,                \* what the call gave its caller
    oauth,                  \* token response and profile of an OAuth builder
    idOut                   \* results of idForAccount on a pair of inputs

vars == <<pc, caller, account, populated, mxRecords, autoConfig,
          containerFolderDefault, log, outcome, oauth, idOut>>

----------------------------------------------------------------------------
(* Bounds *)

\* longest list of MX records a DNS answer holds
MaxMx == 2
\* longest incomingServer / outgoingServer array of an autoconfig document
MaxServers == 2

----------------------------------------------------------------------------
(* Objects *)

EmptyObject == <<>>

Has(o, k) == k \in DOMAIN o

\* Object.assign with its arguments swapped: the defaults win
ObjectAssignTargetWins(target, source) == target @@ source

\* Object.assign(target, source): the source's keys win
ObjectAssign(target, source) == source @@ target

\* o[k] is truthy: set, and neither '' (text is a string or a token sequence,
\* and Len is 0 for both) nor false
TruthyText(o, k) == Has(o, k) /\ Len(o[k]) > 0

\* a boolean flag is truthy when it is set and true
TruthyFlag(o, k) == Has(o, k) /\ o[k] = TRUE

\* {k: o[ko]}; nothing when o[ko] is undefined
Prop(k, o, ko) == IF Has(o, ko) THEN k :> o[ko] ELSE EmptyObject

\* ports: a JSON number or a string of digits (form input, XML text)
PortNumber(n) == [t |-> "number", v |-> n]
PortString(n) == [t |-> "string", v |-> n]

----------------------------------------------------------------------------
(* Text *)

LowerToken(t) ==
    CASE t = "Corp"  -> "corp"
      [] t = "ASPMX" -> "aspmx"
      [] t = "Bob"   -> "bob"
      [] OTHER       -> t

\* String.prototype.toLowerCase
ToLowerCase(s) == [i \in 1..Len(s) |-> LowerToken(s[i])]

AtPositions(s) == {i \in 1..Len(s) : s[i] = "@"}

Max(S) == CHOOSE x \in S : \A y \in S : y <= x
Min(S) == CHOOSE x \in S : \A y \in S : x <= y

\* s.split('@').pop()
SplitPop(s) ==
    IF AtPositions(s) = {} THEN s
    ELSE SubSeq(s, Max(AtPositions(s)) + 1, Len(s))

\* s.split('@').shift(), s.split('@')[0]
SplitShift(s) ==
    IF AtPositions(s) = {} THEN s
    ELSE SubSeq(s, 1, Min(AtPositions(s)) - 1)

\* s.replace(placeholder, value): the first occurrence only
Replace(s, placeholder, value) ==
    LET at == {i \in 1..Len(s) : s[i] = placeholder}
    IN  IF at = {} THEN s
        ELSE SubSeq(s, 1, Min(at) - 1) \o value \o SubSeq(s, Min(at) + 1, Len(s))

IsSpace(t) == t = " "

RECURSIVE TrimStart(_)
TrimStart(s) ==
    IF s # <<>> /\ IsSpace(Head(s)) THEN TrimStart(Tail(s)) ELSE s

RECURSIVE TrimEnd(_)
TrimEnd(s) ==
    IF s # <<>> /\ IsSpace(s[Len(s)]) THEN TrimEnd(SubSeq(s, 1, Len(s) - 1)) ELSE s

\* String.prototype.trim
Trim(s) == TrimEnd(TrimStart(s))

\* new RegExp(`^${test}$`).test(s); the token ".*" matches any run of tokens
RECURSIVE RegExpTest(_, _)
RegExpTest(test, s) ==
    IF test = <<>> THEN s = <<>>
    ELSE IF Head(test) = ".*"
         THEN \E k \in 0..Len(s) : RegExpTest(Tail(test), SubSeq(s, k + 1, Len(s)))
         ELSE s # <<>> /\ Head(s) = Head(test) /\ RegExpTest(Tail(test), Tail(s))

\* sequences over S of length 1..n
SeqsUpTo(S, n) == UNION {[1..k -> S] : k \in 1..n}

----------------------------------------------------------------------------
(* The two static tables.  Their JSON files are data of the repository; the
   entries below are fixtures in the shape the code reads. *)

\* mailcore-provider-settings.json, in Object.values order
MailcoreProviderSettings == <<
    [ domainMatch |-> << <<"googlemail", ".com">> >>,
      mxMatch     |-> << <<".*", ".google", ".com">> >>,
      servers     |-> [ imap |-> << ("hostname" :> <<"imap.gmail.com">>) @@
                                    ("port" :> PortNumber(993)) @@ ("ssl" :> TRUE) >>,
                        smtp |-> << ("hostname" :> <<"smtp.gmail.com">>) @@
                                    ("port" :> PortNumber(587)) @@ ("starttls" :> TRUE) >> ] ],
    [ domainMatch |-> << <<"corp", ".example">> >>,
      mxMatch     |-> << >>,
      servers     |-> [ imap |-> << ("hostname" :> <<"mail.", "{domain}">>) @@
                                    ("port" :> PortNumber(143)) @@ ("tls" :> TRUE) >>,
                        smtp |-> << >> ] ]
>>

\* mailspring-provider-settings.json, keyed by domain or provider name
MailspringProviderSettings ==
    ( <<"gmail">> :>
        ( ("imap_host" :> <<"imap.gmail.com">>) @@ ("imap_port" :> PortNumber(993)) @@
          ("imap_security" :> "SSL / TLS") @@ ("imap_user_format" :> "email") @@
          ("smtp_host" :> <<"smtp.gmail.com">>) @@ ("smtp_port" :> PortNumber(587)) @@
          ("smtp_security" :> "STARTTLS") @@ ("smtp_user_format" :> "email") @@
          ("container_folder" :> "") ) ) @@
    ( <<"proton", ".example">> :>
        ( ("imap_host" :> <<"127.0.0.1">>) @@ ("imap_port" :> PortNumber(1143)) @@
          ("imap_user_format" :> "email") @@ ("imap_allow_insecure_ssl" :> TRUE) @@
          ("smtp_host" :> <<"127.0.0.1">>) @@ ("smtp_port" :> PortNumber(1025)) @@
          ("smtp_user_format" :> "email") @@ ("container_folder" :> "Folders") ) ) @@
    ( <<"old", ".example">> :>
        ( ("alias" :> <<"legacy">>) @@ ("imap_host" :> <<"imap.old.example">>) @@
          ("smtp_host" :> <<"smtp.old.example">>) ) ) @@
    ( <<"legacy">> :>
        ( ("alias" :> <<"gmail">>) @@
          ("imap_host" :> <<"mail.", "%EMAILDOMAIN%">>) @@ ("imap_security" :> "STARTTLS") @@
          ("imap_user_format" :> "email-without-domain") @@
          ("smtp_host" :> <<"mail.", "%EMAILDOMAIN%">>) @@ ("smtp_security" :> "none") @@
          ("smtp_user_format" :> "email-without-domain") ) ) @@
    ( <<"p993", ".example">> :>
        ( ("imap_host" :> <<"imap.p993.example">>) @@ ("imap_port" :> PortNumber(993)) @@
          ("imap_user_format" :> "email") @@
          ("smtp_host" :> <<"smtp.p993.example">>) @@ ("smtp_port" :> PortNumber(465)) @@
          ("smtp_user_format" :> "email") @@ ("container_folder" :> "") ) ) @@
    ( <<"p587", ".example">> :>
        ( ("imap_host" :> <<"imap.p587.example">>) @@ ("imap_port" :> PortNumber(143)) @@
          ("imap_user_format" :> "email") @@
          ("smtp_host" :> <<"smtp.p587.example">>) @@ ("smtp_port" :> PortNumber(587)) @@
          ("smtp_user_format" :> "email") ) ) @@
    ( <<"ssl", ".example">> :>
        ( ("imap_host" :> <<"imap.ssl.example">>) @@ ("imap_security" :> "SSL / TLS") @@
          ("imap_user_format" :> "email") @@
          ("smtp_host" :> <<"smtp.ssl.example">>) @@ ("smtp_security" :> "SSL / TLS") @@
          ("smtp_user_format" :> "email") @@ ("container_folder" :> "") ) ) @@
    ( <<"starttls", ".example">> :>
        ( ("imap_host" :> <<"imap.starttls.example">>) @@ ("imap_security" :> "none") @@
          ("imap_user_format" :> "email") @@
          ("smtp_host" :> <<"smtp.starttls.example">>) @@ ("smtp_security" :> "STARTTLS") @@
          ("smtp_user_format" :> "email") @@ ("container_folder" :> "") ) ) @@
    ( <<"odd", ".example">> :>
        ( ("imap_host" :> <<"imap.odd.example">>) @@ ("imap_port" :> PortNumber(143)) @@
          ("imap_security" :> "SSL / TLS") @@ ("imap_user_format" :> "email") @@
          ("smtp_host" :> <<"smtp.odd.example">>) @@ ("smtp_port" :> PortNumber(25)) @@
          ("smtp_security" :> "SSL / TLS") @@ ("smtp_user_format" :> "email") @@
          ("container_folder" :> "") ) )

----------------------------------------------------------------------------
(* expandAccountWithCommonSettings: the synchronous pieces *)

\* account.emailAddress.split('@').pop().toLowerCase()
DomainOf(emailAddress) == ToLowerCase(SplitPop(emailAddress))

\* {k: usernameWithFormat(format)}
UsernameWithFormat(k, emailAddress, template, formatKey) ==
    IF Has(template, formatKey) /\ template[formatKey] = "email"
    THEN k :> emailAddress
    ELSE IF Has(template, formatKey) /\ template[formatKey] = "email-without-domain"
         THEN k :> SplitShift(emailAddress)
         ELSE EmptyObject

\* {smtp_password: settings.smtp_password || settings.imap_password}
SmtpPasswordDefault(settings) ==
    IF TruthyText(settings, "smtp_password")
    THEN "smtp_password" :> settings["smtp_password"]
    ELSE Prop("smtp_password", settings, "imap_password")

\* whether structured template p matches the domain or one of the MX records
TemplateMatches(p, domain, mx) ==
    \/ \E i \in 1..Len(p.domainMatch) : RegExpTest(p.domainMatch[i], domain)
    \/ \E i \in 1..Len(p.mxMatch) :
          \E r \in 1..Len(mx) : RegExpTest(p.mxMatch[i], mx[r])

\* Object.values(MailcoreProviderSettings).find(...): the index of the first
\* matching template, 0 for undefined
FindTemplate(domain, mx) ==
    LET hits == {i \in 1..Len(MailcoreProviderSettings) :
                    TemplateMatches(MailcoreProviderSettings[i], domain, mx)}
    IN  IF hits = {} THEN 0 ELSE Min(hits)

\* the `if (template)` return left out: the chain goes on after a match
TemplateFoundIgnored(hit) == FALSE

\* if (template): the structured table decides when find gave a template
TemplateFound(hit) == hit # 0

\* (list || [])[0] || {}
FirstServer(list) == IF list = <<>> THEN EmptyObject ELSE list[1]

\* s.starttls ? 'STARTTLS' : s.ssl || s.tls ? 'SSL / TLS' : 'none'
ServerSecurity(server) ==
    IF TruthyFlag(server, "starttls") THEN "STARTTLS"
    ELSE IF TruthyFlag(server, "ssl") \/ TruthyFlag(server, "tls") THEN "SSL / TLS"
         ELSE "none"

\* (server.hostname || '').replace('{domain}', domain)
ServerHost(server, domain) ==
    Replace(IF TruthyText(server, "hostname") THEN server["hostname"] ELSE <<>>,
            "{domain}", domain)

\* the defaults object of the structured-table branch
MailcoreDefaults(template, emailAddress, settings) ==
    LET domain == DomainOf(emailAddress)
        imap   == FirstServer(template.servers.imap)
        smtp   == FirstServer(template.servers.smtp)
    IN  ("imap_host" :> ServerHost(imap, domain)) @@
        Prop("imap_port", imap, "port") @@
        ("imap_username" :> emailAddress) @@
        Prop("imap_password", settings, "imap_password") @@
        ("imap_security" :> ServerSecurity(imap)) @@
        ("imap_allow_insecure_ssl" :> FALSE) @@
        ("smtp_host" :> ServerHost(smtp, domain)) @@
        Prop("smtp_port", smtp, "port") @@
        ("smtp_username" :> emailAddress) @@
        SmtpPasswordDefault(settings) @@
        ("smtp_security" :> ServerSecurity(smtp)) @@
        ("smtp_allow_insecure_ssl" :> FALSE) @@
        ("container_folder" :> "")

\* the template of the fallback branch
FallbackTemplate(domain) ==
    ("imap_host" :> (<<"imap.">> \o domain)) @@ ("imap_user_format" :> "email") @@
    ("smtp_host" :> (<<"smtp.">> \o domain)) @@ ("smtp_user_format" :> "email") @@
    ("container_folder" :> "")

\* MailspringProviderSettings[key], as an object or nothing
TableHas(key) == key \in DOMAIN MailspringProviderSettings

\* the key whose entry is mstemplate before the alias is followed; <<>> for none
PresetKey(domain, provider) ==
    IF TableHas(domain) THEN domain
    ELSE IF TableHas(provider) THEN provider
         ELSE <<>>

\* the entry a chain of aliases starting at key ends in
RECURSIVE AliasTarget(_)
AliasTarget(key) ==
    IF Has(MailspringProviderSettings[key], "alias")
    THEN AliasTarget(MailspringProviderSettings[key]["alias"])
    ELSE MailspringProviderSettings[key]

\* the lookup with aliases followed to the end of the chain
PresetTemplateAliasChain(domain, provider) ==
    IF TableHas(domain) THEN AliasTarget(domain)
    ELSE IF TableHas(provider) THEN AliasTarget(provider)
         ELSE FallbackTemplate(domain)

\* mstemplate: the table entry by domain or by provider, its alias followed
\* once, or the fallback template
PresetTemplate(domain, provider) ==
    LET key == PresetKey(domain, provider)
    IN  IF key # <<>>
        THEN IF Has(MailspringProviderSettings[key], "alias")
             THEN MailspringProviderSettings[MailspringProviderSettings[key]["alias"]]
             ELSE MailspringProviderSettings[key]
        ELSE FallbackTemplate(domain)

NaN == [t |-> "NaN", v |-> 0]

\* Number(o[k]) of a number, a string of digits or undefined
NumberOf(o, k) == IF Has(o, k) THEN PortNumber(o[k].v) ELSE NaN

\* !n for a number
FalsyNumber(n) == n.t = "NaN" \/ n.v = 0

\* imap_port and imap_security after the inference
ImapInference(mstemplate) ==
    LET port == NumberOf(mstemplate, "imap_port")
        sec  == TruthyText(mstemplate, "imap_security")
    IN  IF ~sec /\ FalsyNumber(port)
        THEN [port |-> PortNumber(993), security |-> "SSL / TLS"]
        ELSE IF ~sec /\ ~FalsyNumber(port)
        THEN [port |-> port,
              security |-> IF port.v = 993 THEN "SSL / TLS" ELSE "none"]
        ELSE IF sec /\ FalsyNumber(port)
        THEN [port |-> IF mstemplate["imap_security"] = "SSL / TLS"
                       THEN PortNumber(993) ELSE PortNumber(143),
              security |-> mstemplate["imap_security"]]
        ELSE [port |-> port, security |-> mstemplate["imap_security"]]

\* the inference with the submission port as the default for SMTP
SmtpInferenceSubmissionDefault(mstemplate) ==
    LET port == NumberOf(mstemplate, "smtp_port")
        sec  == TruthyText(mstemplate, "smtp_security")
    IN  IF ~sec /\ FalsyNumber(port)
        THEN [port |-> PortNumber(587), security |-> "STARTTLS"]
        ELSE IF ~sec
        THEN [port |-> port,
              security |-> IF port.v = 587 THEN "STARTTLS"
                           ELSE IF port.v = 465 THEN "SSL / TLS" ELSE "none"]
        ELSE IF FalsyNumber(port)
        THEN [port |-> IF mstemplate["smtp_security"] = "STARTTLS" THEN PortNumber(587)
                       ELSE IF mstemplate["smtp_security"] = "SSL / TLS"
                            THEN PortNumber(465) ELSE PortNumber(25),
              security |-> mstemplate["smtp_security"]]
        ELSE [port |-> port, security |-> mstemplate["smtp_security"]]

\* smtp_port and smtp_security after the inference
SmtpInference(mstemplate) ==
    LET port == NumberOf(mstemplate, "smtp_port")
        sec  == TruthyText(mstemplate, "smtp_security")
    IN  IF ~sec /\ FalsyNumber(port)
        THEN [port |-> PortNumber(465), security |-> "SSL / TLS"]
        ELSE IF ~sec /\ ~FalsyNumber(port)
        THEN [port |-> port,
              security |-> IF port.v = 587 THEN "STARTTLS"
                           ELSE IF port.v = 465 THEN "SSL / TLS" ELSE "none"]
        ELSE IF sec /\ FalsyNumber(port)
        THEN [port |-> IF mstemplate["smtp_security"] = "STARTTLS" THEN PortNumber(587)
                       ELSE IF mstemplate["smtp_security"] = "SSL / TLS"
                            THEN PortNumber(465) ELSE PortNumber(25),
              security |-> mstemplate["smtp_security"]]
        ELSE [port |-> port, security |-> mstemplate["smtp_security"]]

\* the defaults object of the preset branch
MailspringDefaults(mstemplate, emailAddress, settings) ==
    LET domain == DomainOf(emailAddress)
        imap   == ImapInference(mstemplate)
        smtp   == SmtpInference(mstemplate)
    IN  ("imap_host" :> Replace(mstemplate["imap_host"], "%EMAILDOMAIN%", domain)) @@
        ("imap_port" :> imap.port) @@
        UsernameWithFormat("imap_username", emailAddress, mstemplate, "imap_user_format") @@
        Prop("imap_password", settings, "imap_password") @@
        ("imap_security" :> imap.security) @@
        ("imap_allow_insecure_ssl" :> TruthyFlag(mstemplate, "imap_allow_insecure_ssl")) @@
        ("smtp_host" :> Replace(mstemplate["smtp_host"], "%EMAILDOMAIN%", domain)) @@
        ("smtp_port" :> smtp.port) @@
        UsernameWithFormat("smtp_username", emailAddress, mstemplate, "smtp_user_format") @@
        SmtpPasswordDefault(settings) @@
        ("smtp_security" :> smtp.security) @@
        ("smtp_allow_insecure_ssl" :> TruthyFlag(mstemplate, "smtp_allow_insecure_ssl")) @@
        Prop("container_folder", mstemplate, "container_folder")

\* the container-folder substitution that ends the preset branch
ContainerFolderOverride(settings, folderDefault) ==
    IF folderDefault # "Mailspring" /\
       (~Has(settings, "container_folder") \/ settings["container_folder"] = "")
    THEN ("container_folder" :> folderDefault) @@ settings
    ELSE settings

\* the settings the preset branch leaves on populated
MailspringSettings(emailAddress, provider, settings, folderDefault) ==
    ContainerFolderOverride(
        ObjectAssign(
            MailspringDefaults(PresetTemplate(DomainOf(emailAddress), provider),
                               emailAddress, settings),
            settings),
        folderDefault)

----------------------------------------------------------------------------
(* The Thunderbird autoconfig source.

   A parsed document (xml2js, explicitArray: false, explicitRoot: false) is
     [kind |-> "false"]     getThunderbirdAutoconfig caught an error
     [kind |-> "null"]      the body was empty: the parser gives null
     [kind |-> "text"]      the root element has no child elements
     [kind |-> "object", emailProvider |-> e]
   where a child e is [shape |-> "undefined"], [shape |-> "single", item |-> x]
   or [shape |-> "array", items |-> <<x, ...>>].  A provider is
   [attrs, id, incomingServer, outgoingServer]; a server entry is
   [attrs, type, body]; attrs says whether the element has attributes, that
   is whether its `$` is defined. *)

Undefined == [shape |-> "undefined"]
Single(x) == [shape |-> "single", item |-> x]
Array(xs) == [shape |-> "array", items |-> xs]

\* extractServerDetails(server, account)
extractServerDetails(server, emailAddress) ==
    Prop("host", server.body, "hostname") @@
    Prop("port", server.body, "port") @@
    ("username" :>
        IF Has(server.body, "username") /\ server.body["username"] = "%EMAILLOCALPART%"
        THEN SplitShift(emailAddress)
        ELSE emailAddress) @@
    ("security" :>
        IF ~Has(server.body, "socketType") THEN "STARTTLS"
        ELSE CASE server.body["socketType"] = "plain"    -> "None"
               [] server.body["socketType"] = "STARTTLS" -> "STARTTLS"
               [] server.body["socketType"] = "SSL"      -> "SSL / TLS"
               [] OTHER                                  -> "STARTTLS")

Threw == [kind |-> "throw"]
Details(d) == [kind |-> "ok", details |-> d]
\* imapDetails / smtpDetails left null
NoDetails == [kind |-> "null"]

\* the loop over an array of server entries: reading entry.$.type throws on an
\* entry without attributes; the first entry of the type wanted ends the loop
RECURSIVE ScanArray(_, _, _)
ScanArray(entries, type, emailAddress) ==
    IF entries = <<>> THEN NoDetails
    ELSE IF ~Head(entries).attrs THEN Threw
    ELSE IF Head(entries).type = type
         THEN Details(extractServerDetails(Head(entries), emailAddress))
         ELSE ScanArray(Tail(entries), type, emailAddress)

\* "Handle IMAP" / "Handle SMTP" for a server child that is defined
ScanServers(child, type, emailAddress) ==
    IF child.shape = "array" THEN ScanArray(child.items, type, emailAddress)
    ELSE IF ~child.item.attrs THEN Threw
    ELSE IF child.item.type = type
         THEN Details(extractServerDetails(child.item, emailAddress))
         ELSE NoDetails

\* provider.find(p => p.$.id === domain): reading p.$.id throws on a provider
\* without attributes
RECURSIVE FindProvider(_, _)
FindProvider(providers, domain) ==
    IF providers = <<>> THEN [kind |-> "undefined"]
    ELSE IF ~Head(providers).attrs THEN Threw
    ELSE IF Head(providers).id = domain THEN [kind |-> "ok", provider |-> Head(providers)]
         ELSE FindProvider(Tail(providers), domain)

\* the provider the document's emailProvider child (defined) selects
SelectProvider(child, domain) ==
    IF child.shape = "array" THEN FindProvider(child.items, domain)
    ELSE [kind |-> "ok", provider |-> child.item]

\* details?.host || fallback
HostOr(scan, fallback) ==
    IF scan.kind = "ok" /\ TruthyText(scan.details, "host")
    THEN scan.details["host"] ELSE fallback

\* {k: details?.[dk]}
DetailProp(k, scan, dk) ==
    IF scan.kind = "ok" THEN Prop(k, scan.details, dk) ELSE EmptyObject

\* the settings object of TryThunderbirdAutoconfig
AutoconfigDefaults(imap, smtp, emailAddress, settings) ==
    LET domain == DomainOf(emailAddress)
    IN  ("imap_host" :> HostOr(imap, <<"imap.">> \o domain)) @@
        DetailProp("imap_port", imap, "port") @@
        DetailProp("imap_username", imap, "username") @@
        Prop("imap_password", settings, "imap_password") @@
        DetailProp("imap_security", imap, "security") @@
        ("imap_allow_insecure_ssl" :> FALSE) @@
        ("smtp_host" :> HostOr(smtp, <<"smtp.">> \o domain)) @@
        DetailProp("smtp_port", smtp, "port") @@
        DetailProp("smtp_username", smtp, "username") @@
        SmtpPasswordDefault(settings) @@
        DetailProp("smtp_security", smtp, "security") @@
        ("smtp_allow_insecure_ssl" :> FALSE) @@
        ("container_folder" :> "")

NotFound == [kind |-> "false"]

\* TryThunderbirdAutoconfig once the document is in hand: it throws, returns
\* false, or returns populated with its settings replaced
TryThunderbirdAutoconfig(doc, emailAddress, settings) ==
    LET domain == DomainOf(emailAddress)
    IN  IF doc.kind = "false" THEN NotFound
        ELSE IF doc.kind = "null" THEN Threw
        ELSE IF doc.kind = "text" THEN NotFound
        ELSE IF doc.emailProvider.shape = "undefined" THEN NotFound
        ELSE LET sel == SelectProvider(doc.emailProvider, domain)
             IN  IF sel.kind = "throw" THEN Threw
                 ELSE IF sel.kind = "undefined" THEN NotFound
                 ELSE IF sel.provider.incomingServer.shape = "undefined" \/
                         sel.provider.outgoingServer.shape = "undefined"
                      THEN NotFound
                 ELSE LET imap == ScanServers(sel.provider.incomingServer, "imap",
                                              emailAddress)
                          smtp == ScanServers(sel.provider.outgoingServer, "smtp",
                                              emailAddress)
                      IN  IF imap.kind = "throw" \/ smtp.kind = "throw" THEN Threw
                          ELSE [kind |-> "populated",
                                settings |-> ObjectAssign(
                                    AutoconfigDefaults(imap, smtp, emailAddress, settings),
                                    settings)]

----------------------------------------------------------------------------
(* idForAccount *)

\* the identity keys with smtp_host forgotten
IdentityKeysWithoutSmtpHost == <<"imap_username", "imap_host", "smtp_username">>

\* the keys of settingsThatCouldChangeMailContents, in the order written
IdentityKeys == <<"imap_username", "imap_host", "smtp_username", "smtp_host">>

\* the characters of a JSON string literal: quote and backslash are escaped
RECURSIVE JsonEscape(_)
JsonEscape(s) ==
    IF s = <<>> THEN <<>>
    ELSE (IF Head(s) = "\"" THEN <<"\\", "\"">>
          ELSE IF Head(s) = "\\" THEN <<"\\", "\\">>
          ELSE <<Head(s)>>) \o JsonEscape(Tail(s))

\* JSON.stringify of a string
JsonString(s) == <<"\"">> \o JsonEscape(s) \o <<"\"">>

\* the members JSON.stringify writes for keys[i..]: a key holding undefined
\* is left out; `first` says no member was written yet
RECURSIVE JsonMembers(_, _, _, _)
JsonMembers(o, keys, i, first) ==
    IF i > Len(keys) THEN <<>>
    ELSE IF ~Has(o, keys[i]) THEN JsonMembers(o, keys, i + 1, first)
    ELSE (IF first THEN <<>> ELSE <<",">>) \o
         <<"\"", keys[i], "\"", ":">> \o JsonString(o[keys[i]]) \o
         JsonMembers(o, keys, i + 1, FALSE)

\* `${emailAddress}${JSON.stringify(settingsThatCouldChangeMailContents)}`
IdString(emailAddress, connectionSettings) ==
    emailAddress \o <<"{">> \o JsonMembers(connectionSettings, IdentityKeys, 1, TRUE) \o <<"}">>

\* the first 8 hex digits of the SHA-256 of the text, kept as a term over the
\* text: equal texts give equal ids
Sha256Hex8(text) == <<"sha256/8">> \o text

idForAccount(emailAddress, connectionSettings) ==
    Sha256Hex8(IdString(emailAddress, connectionSettings))

----------------------------------------------------------------------------
(* Inputs *)

\* addresses whose domains the structured table matches by domain (corp),
\* may match by MX (startup), or that only the preset table knows
EmailsOnline == {
    <<"Bob", "@", "Corp", ".example">>,
    <<"ann", "@", "startup", ".example">>,
    <<"eve", "@", "proton", ".example">>,
    <<"dan", "@", "old", ".example">> }

\* one address for every preset-table entry keyed by a domain
EmailsPreset == {
    <<"eve", "@", "proton", ".example">>,
    <<"dan", "@", "old", ".example">>,
    <<"u1", "@", "p993", ".example">>,
    <<"u2", "@", "p587", ".example">>,
    <<"u3", "@", "ssl", ".example">>,
    <<"u4", "@", "starttls", ".example">>,
    <<"u5", "@", "odd", ".example">>,
    <<"ann", "@", "startup", ".example">>,
    <<"Bob", "@", "Corp", ".example">> }

\* account.provider as the onboarding pages set it
Providers == { <<"imap">>, <<"gmail">> }

\* settings already on the account when it is handed in
SettingsChoices == {
    EmptyObject,
    ("imap_password" :> "secret") @@ ("container_folder" :> ""),
    ("imap_host" :> <<" ", "mx.custom", " ">>) @@ ("imap_port" :> PortString(1993)) @@
        ("imap_username" :> <<"custom-user">>) @@ ("smtp_password" :> "s3") @@
        ("smtp_security" :> "none") @@ ("container_folder" :> "Custom") }

FolderDefaults == { "Mailspring", "Folders" }

MxHosts == { <<"ASPMX", ".google", ".com">>, <<"mx", ".startup", ".example">> }

\* what dns.resolveMx calls back with
DnsError == [err |-> TRUE, addresses |-> <<>>]
DnsAnswers ==
    {DnsError} \cup
    {[err |-> FALSE, addresses |-> a] : a \in {<<>>} \cup SeqsUpTo(MxHosts, MaxMx)}

ImapA == [attrs |-> TRUE, type |-> "imap",
          body |-> ("hostname" :> <<"imap.isp.example">>) @@ ("port" :> PortString(993)) @@
                   ("username" :> "%EMAILLOCALPART%") @@ ("socketType" :> "SSL")]
ImapB == [attrs |-> TRUE, type |-> "imap",
          body |-> ("port" :> PortString(143)) @@ ("username" :> "%EMAILADDRESS%") @@
                   ("socketType" :> "plain")]
Pop3 ==  [attrs |-> TRUE, type |-> "pop3",
          body |-> ("hostname" :> <<"pop.isp.example">>) @@ ("port" :> PortString(995)) @@
                   ("username" :> "%EMAILADDRESS%") @@ ("socketType" :> "SSL")]
SmtpA == [attrs |-> TRUE, type |-> "smtp",
          body |-> ("hostname" :> <<"smtp.isp.example">>) @@ ("port" :> PortString(587)) @@
                   ("username" :> "%EMAILADDRESS%") @@ ("socketType" :> "STARTTLS")]
SmtpB == [attrs |-> TRUE, type |-> "smtp",
          body |-> ("port" :> PortString(25)) @@ ("username" :> "%EMAILLOCALPART%")]
Lmtp ==  [attrs |-> TRUE, type |-> "lmtp",
          body |-> ("hostname" :> <<"lmtp.isp.example">>) @@ ("port" :> PortString(24))]
\* an entry without attributes
Bare ==  [attrs |-> FALSE, type |-> "",
          body |-> ("hostname" :> <<"host.isp.example">>)]

\* an array comes from two or more sibling elements of one name
ArraysOf(S) == {Array(xs) : xs \in SeqsUpTo(S, MaxServers) \ [1..1 -> S]}

IncomingChoices ==
    {Undefined} \cup {Single(x) : x \in {ImapA, Pop3, Bare}} \cup ArraysOf({ImapB, Pop3, Bare})

OutgoingChoices ==
    {Undefined} \cup {Single(x) : x \in {SmtpA, Lmtp, Bare}} \cup ArraysOf({SmtpB, Lmtp})

Provider(hasAttrs, id, incoming, outgoing) ==
    [attrs |-> hasAttrs, id |-> id, incomingServer |-> incoming, outgoingServer |-> outgoing]

OtherProvider == Provider(TRUE, <<"isp", ".example">>, Single(ImapA), Single(SmtpA))
BareProvider == Provider(FALSE, <<>>, Single(ImapA), Single(SmtpA))

Document(child) == [kind |-> "object", emailProvider |-> child]

\* the documents an autoconfig URL of the domain may serve
Documents(domain) ==
    { [kind |-> "null"], [kind |-> "text"], Document(Undefined),
      Document(Array(<<OtherProvider, OtherProvider>>)),
      Document(Array(<<BareProvider, Provider(TRUE, domain, Single(ImapA), Single(SmtpA))>>)) }
    \cup { Document(Single(Provider(TRUE, <<"isp", ".example">>, i, o))) :
             i \in IncomingChoices, o \in OutgoingChoices }
    \cup { Document(Array(<<OtherProvider, Provider(TRUE, domain, i, o)>>)) :
             i \in IncomingChoices, o \in OutgoingChoices }

\* getThunderbirdAutoconfig(url): false on a non-2xx answer, a network error or
\* a body that does not parse, the parsed body otherwise
Responses(domain, reachable) ==
    IF reachable THEN {NotFound} \cup Documents(domain) ELSE {NotFound}

----------------------------------------------------------------------------
(* State *)

NoAccount == [emailAddress |-> <<>>, provider |-> <<>>, settings |-> EmptyObject,
              id |-> <<>>, label |-> <<>>, authedAt |-> "null"]

Pending == [kind |-> "pending", source |-> "none", error |-> "none"]
Returned(source) == [kind |-> "returned", source |-> source, error |-> "none"]
Thrown(error) == [kind |-> "threw", source |-> "none", error |-> error]

NoOAuth == [token |-> [state |-> "none"], profile |-> [state |-> "none"]]

Init ==
    /\ pc = "idle"
    /\ caller = "none"
    /\ account = NoAccount
    /\ populated = NoAccount
    /\ mxRecords = <<>>
    /\ autoConfig = [kind |-> "none"]
    /\ containerFolderDefault \in FolderDefaults
    /\ log = <<>>
    /\ outcome = Pending
    /\ oauth = NoOAuth
    /\ idOut = <<>>

----------------------------------------------------------------------------
(* expandAccountWithCommonSettings *)

\* where a call of expandAccountWithCommonSettings hands its result
ExpandReturns(source) ==
    IF caller = "expand"
    THEN pc' = "done" /\ outcome' = Returned(source)
    ELSE pc' = "expanded" /\ outcome' = outcome

\* an exception leaves every function on the stack
Throws(error) == pc' = "done" /\ outcome' = Thrown(error)

\* a caller hands in an account; the function awaits the MX lookup
ExpandCall(emails) ==
    /\ pc = "idle"
    /\ \E e \in emails, p \in Providers, s \in SettingsChoices :
          account' = [emailAddress |-> e, provider |-> p, settings |-> s,
                      id |-> <<>>, label |-> e, authedAt |-> "null"]
    /\ caller' = "expand"
    /\ pc' = "mx"
    /\ log' = <<"mx">>
    /\ UNCHANGED <<populated, mxRecords, autoConfig, containerFolderDefault, outcome,
                   oauth, idOut>>

\* mxRecordsForDomain resolves; populated is cloned; the structured table is
\* searched and, on a hit, decides the result; otherwise the first autoconfig
\* URL is fetched
MxResolved(answers) ==
    /\ pc = "mx"
    /\ \E answer \in answers :
          LET mx     == IF answer.err THEN <<>>
                        ELSE [i \in 1..Len(answer.addresses) |->
                                 ToLowerCase(answer.addresses[i])]
              domain == DomainOf(account.emailAddress)
              hit    == FindTemplate(domain, mx)
          IN  /\ mxRecords' = mx
              /\ IF TemplateFound(hit)
                 THEN /\ populated' =
                           [account EXCEPT !.settings =
                               ObjectAssign(
                                   MailcoreDefaults(MailcoreProviderSettings[hit],
                                                    account.emailAddress, account.settings),
                                   account.settings)]
                      /\ log' = Append(log, "structured")
                      /\ ExpandReturns("structured")
                 ELSE /\ populated' = account
                      /\ log' = log \o <<"structured", "fetch1">>
                      /\ pc' = "fetch1"
                      /\ outcome' = outcome
    /\ UNCHANGED <<caller, account, autoConfig, containerFolderDefault, oauth, idOut>>

\* the rest of TryThunderbirdAutoconfig and of expandAccountWithCommonSettings
\* once the document is in hand
Resolve(doc) ==
    LET try == TryThunderbirdAutoconfig(doc, account.emailAddress, populated.settings)
    IN  IF try.kind = "throw"
        THEN /\ Throws("TypeError")
             /\ UNCHANGED <<populated, log>>
        ELSE IF try.kind = "populated"
        THEN /\ populated' = [populated EXCEPT !.settings = try.settings]
             /\ log' = log
             /\ ExpandReturns("autoconfig")
        ELSE /\ populated' =
                  [populated EXCEPT !.settings =
                      MailspringSettings(account.emailAddress, account.provider,
                                         populated.settings, containerFolderDefault)]
             /\ log' = Append(log, "preset")
             /\ ExpandReturns("preset")

\* the fetch of https://autoconfig.<domain>/mail/config-v1.1.xml ends
Fetch1Done(reachable) ==
    /\ pc = "fetch1"
    /\ \E doc \in Responses(DomainOf(account.emailAddress), reachable) :
          /\ autoConfig' = doc
          /\ IF doc.kind = "false"
             THEN /\ pc' = "fetch2"
                  /\ log' = Append(log, "fetch2")
                  /\ UNCHANGED <<populated, outcome>>
             ELSE Resolve(doc)
    /\ UNCHANGED <<caller, account, mxRecords, containerFolderDefault, oauth, idOut>>

\* the fetch of https://<domain>/.well-known/autoconfig/mail/config-v1.1.xml ends
Fetch2Done(reachable) ==
    /\ pc = "fetch2"
    /\ \E doc \in Responses(DomainOf(account.emailAddress), reachable) :
          /\ autoConfig' = doc
          /\ Resolve(doc)
    /\ UNCHANGED <<caller, account, mxRecords, containerFolderDefault, oauth, idOut>>

Next ==
    \/ ExpandCall(EmailsOnline)
    \/ MxResolved(DnsAnswers)
    \/ Fetch1Done(TRUE)
    \/ Fetch2Done(TRUE)

Spec == Init /\ [][Next]_vars

\* the same calls with no answer from DNS and no autoconfig endpoint reachable
NextOffline ==
    \/ ExpandCall(EmailsPreset)
    \/ MxResolved({DnsError})
    \/ Fetch1Done(FALSE)
    \/ Fetch2Done(FALSE)

SpecOffline == Init /\ [][NextOffline]_vars

----------------------------------------------------------------------------
(* Properties of the resolution chain *)

Range(f) == {f[i] : i \in DOMAIN f}

IsPrefix(a, b) == Len(a) <= Len(b) /\ SubSeq(b, 1, Len(a)) = a

Domain == DomainOf(account.emailAddress)

\* the structured table has a template for the account, given the MX answer
StructuredHit == FindTemplate(Domain, mxRecords) # 0

\* the MX answer is in
MxKnown == pc \notin {"idle", "mx"}

\* the call returned populated
ReturnedFrom(source) == pc = "done" /\ outcome = Returned(source)

\* what the autoconfig source makes of the last document fetched
AutoconfigVerdict ==
    TryThunderbirdAutoconfig(autoConfig, account.emailAddress, account.settings).kind

\* C1: the sources are consulted in the order structured table, autoconfig
\* document, preset table, and the first one that yields a template decides:
\* after a structured-table match nothing is fetched and the preset table is
\* not read; after the autoconfig source yields settings the preset table is
\* not read; the preset table is read only when both earlier sources yielded
\* nothing.
C1_FirstSourceDecides ==
    /\ \/ IsPrefix(log, <<"mx", "structured", "fetch1", "preset">>)
       \/ IsPrefix(log, <<"mx", "structured", "fetch1", "fetch2", "preset">>)
    /\ (MxKnown /\ StructuredHit) =>
          /\ log = <<"mx", "structured">>
          /\ ReturnedFrom("structured")
    /\ (pc = "done" /\ ~StructuredHit /\ AutoconfigVerdict = "populated") =>
          /\ "preset" \notin Range(log)
          /\ ReturnedFrom("autoconfig")
    /\ "preset" \in Range(log) =>
          /\ ~StructuredHit
          /\ AutoconfigVerdict = "false"
          /\ ReturnedFrom("preset")

\* C1 witness: a template matched by the second of two MX records alone
C1_Witness ==
    /\ ReturnedFrom("structured")
    /\ Len(mxRecords) = 2
    /\ FindTemplate(Domain, <<mxRecords[1]>>) = 0

\* C2: the resolution chain never throws: whatever DNS and the two autoconfig
\* URLs answer, the call completes and returns populated settings.
C2_NeverThrows == outcome.kind # "threw"

\* the value of a field the account held before the call is still there
Kept(k) == Has(populated.settings, k) /\ populated.settings[k] = account.settings[k]

FolderRewritten(k) ==
    /\ k = "container_folder"
    /\ account.settings[k] = ""
    /\ outcome.source = "preset"
    /\ containerFolderDefault # "Mailspring"

UsedPreset == PresetTemplate(Domain, account.provider)

\* the port and security the stated IMAP rule gives for template t
C4_ImapRule(t) ==
    IF ~Has(t, "imap_port") /\ ~Has(t, "imap_security")
    THEN <<PortNumber(993), "SSL / TLS">>
    ELSE IF Has(t, "imap_port") /\ ~Has(t, "imap_security")
    THEN <<t["imap_port"], IF t["imap_port"].v = 993 THEN "SSL / TLS" ELSE "none">>
    ELSE IF ~Has(t, "imap_port") /\ Has(t, "imap_security")
    THEN <<IF t["imap_security"] = "SSL / TLS" THEN PortNumber(993) ELSE PortNumber(143),
           t["imap_security"]>>
    ELSE <<t["imap_port"], t["imap_security"]>>

\* the port and security the stated SMTP rule gives for template t
C4_SmtpRule(t) ==
    IF ~Has(t, "smtp_port") /\ ~Has(t, "smtp_security")
    THEN <<PortNumber(465), "SSL / TLS">>
    ELSE IF Has(t, "smtp_port") /\ ~Has(t, "smtp_security")
    THEN <<t["smtp_port"],
           IF t["smtp_port"].v = 587 THEN "STARTTLS"
           ELSE IF t["smtp_port"].v = 465 THEN "SSL / TLS" ELSE "none">>
    ELSE IF ~Has(t, "smtp_port") /\ Has(t, "smtp_security")
    THEN <<IF t["smtp_security"] = "STARTTLS" THEN PortNumber(587)
           ELSE IF t["smtp_security"] = "SSL / TLS" THEN PortNumber(465)
                ELSE PortNumber(25),
           t["smtp_security"]>>
    ELSE <<t["smtp_port"], t["smtp_security"]>>

\* field k of the returned settings is v unless the account held k already
Synthesized(k, v) ==
    Has(populated.settings, k) /\
    populated.settings[k] = IF Has(account.settings, k) THEN account.settings[k] ELSE v

\* C4: on the preset-table path the port and security of IMAP and of SMTP
\* follow the inference table for every combination of the template's port
\* and security being present or absent; so a domain no table knows, with no
\* MX record and no autoconfig endpoint, gets imap.<domain>/993/SSL-TLS and
\* smtp.<domain>/465/SSL-TLS.
C4_PortSecurityInference ==
    ReturnedFrom("preset") =>
        /\ Synthesized("imap_port", C4_ImapRule(UsedPreset)[1])
        /\ Synthesized("imap_security", C4_ImapRule(UsedPreset)[2])
        /\ Synthesized("smtp_port", C4_SmtpRule(UsedPreset)[1])
        /\ Synthesized("smtp_security", C4_SmtpRule(UsedPreset)[2])
        /\ (~TableHas(Domain) /\ ~TableHas(account.provider)) =>
              /\ Synthesized("imap_host", <<"imap.">> \o Domain)
              /\ Synthesized("imap_port", PortNumber(993))
              /\ Synthesized("imap_security", "SSL / TLS")
              /\ Synthesized("smtp_host", <<"smtp.">> \o Domain)
              /\ Synthesized("smtp_port", PortNumber(465))
              /\ Synthesized("smtp_security", "SSL / TLS")

\* C4 witness: an unknown domain with nothing set fell through to the
\* generated fallback after the MX lookup and both fetches failed
C4_Witness ==
    /\ ReturnedFrom("preset")
    /\ log = <<"mx", "structured", "fetch1", "fetch2", "preset">>
    /\ mxRecords = <<>>
    /\ ~TableHas(Domain) /\ ~TableHas(account.provider)
    /\ account.settings = EmptyObject
    /\ populated.settings["imap_host"] = <<"imap.", "startup", ".example">>
    /\ populated.settings["smtp_port"] = PortNumber(465)

\* the container folder of the template the deciding source supplied: the
\* structured table and the autoconfig document have none (the code writes '')
TemplateFolder ==
    IF outcome.source = "preset" THEN Prop("container_folder", UsedPreset, "container_folder")
    ELSE EmptyObject

\* C5: for whichever source supplied the template, when the account had no
\* container_folder of its own the resulting container_folder is the
\* deployment default iff the template's container folder is empty or unset
\* and the deployment default is not "Mailspring"; otherwise the template's
\* value is kept.
C5_ContainerFolderPolicy ==
    (pc = "done" /\ outcome.kind = "returned" /\ ~Has(account.settings, "container_folder")) =>
        IF (~Has(TemplateFolder, "container_folder") \/ TemplateFolder["container_folder"] = "")
           /\ containerFolderDefault # "Mailspring"
        THEN /\ Has(populated.settings, "container_folder")
             /\ populated.settings["container_folder"] = containerFolderDefault
        ELSE \/ ~Has(populated.settings, "container_folder")
             \/ populated.settings["container_folder"] =
                   IF Has(TemplateFolder, "container_folder")
                   THEN TemplateFolder["container_folder"] ELSE ""

\* the server child holds an entry of the type
HasEntryOfType(child, type) ==
    \/ child.shape = "single" /\ child.item.attrs /\ child.item.type = type
    \/ child.shape = "array" /\
          \E i \in 1..Len(child.items) : child.items[i].attrs /\ child.items[i].type = type

\* the provider the last document selects for the account
Selected == SelectProvider(autoConfig.emailProvider, Domain)

\* a document was fetched and one of its providers selected
ProviderSelected ==
    /\ autoConfig.kind = "object"
    /\ autoConfig.emailProvider.shape # "undefined"
    /\ Selected.kind = "ok"

\* C7: with a document fetched and a provider selected, the autoconfig source
\* yields settings only if the provider has an incoming entry of type imap and
\* an outgoing entry of type smtp; if either is missing the source yields
\* nothing and the preset table decides.
C7_BothServerKindsRequired ==
    (pc = "done" /\ outcome.kind = "returned" /\ ProviderSelected) =>
        IF HasEntryOfType(Selected.provider.incomingServer, "imap") /\
           HasEntryOfType(Selected.provider.outgoingServer, "smtp")
        THEN outcome.source = "autoconfig"
        ELSE outcome.source = "preset"

\* the table entry the stated lookup finds: by domain, else by provider hint
C8_Found ==
    IF Domain \in DOMAIN MailspringProviderSettings THEN MailspringProviderSettings[Domain]
    ELSE MailspringProviderSettings[account.provider]

\* the fields the stated lookup uses: those of the alias target when the entry
\* found declares one, the generated fallback when no entry is found
C8_Fields ==
    IF Domain \notin DOMAIN MailspringProviderSettings /\
       account.provider \notin DOMAIN MailspringProviderSettings
    THEN ("imap_host" :> (<<"imap.">> \o Domain)) @@ ("imap_user_format" :> "email") @@
         ("smtp_host" :> (<<"smtp.">> \o Domain)) @@ ("smtp_user_format" :> "email") @@
         ("container_folder" :> "")
    ELSE IF Has(C8_Found, "alias") THEN MailspringProviderSettings[C8_Found["alias"]]
         ELSE C8_Found

\* C8: the preset branch uses the entry keyed by the domain, else the entry
\* keyed by the provider hint, else the generated fallback, and follows an
\* alias exactly one level.
C8_PresetLookup ==
    ReturnedFrom("preset") =>
        /\ populated.settings =
              ContainerFolderOverride(
                  ObjectAssign(
                      MailspringDefaults(C8_Fields, account.emailAddress, account.settings),
                      account.settings),
                  containerFolderDefault)
        /\ Domain = <<"old", ".example">> =>
              /\ Synthesized("imap_host", <<"mail.", "old", ".example">>)
              /\ Synthesized("imap_security", "STARTTLS")
              /\ Synthesized("imap_username", SplitShift(account.emailAddress))
        /\ Domain = <<"proton", ".example">> =>
              Synthesized("imap_host", <<"127.0.0.1">>)

\* C8 witness: the entry found by domain declares an alias whose target
\* declares an alias of its own
C8_Witness ==
    /\ ReturnedFrom("preset")
    /\ TableHas(Domain)
    /\ Has(MailspringProviderSettings[Domain], "alias")
    /\ Has(MailspringProviderSettings[MailspringProviderSettings[Domain]["alias"]], "alias")
    /\ account.provider = <<"gmail">>
    /\ account.settings = EmptyObject

----------------------------------------------------------------------------
(* finalizeAndValidateAccount *)

\* if (settings[k]) settings[k] = settings[k].trim()
TrimHost(settings, k) ==
    IF TruthyText(settings, k) THEN (k :> Trim(settings[k])) @@ settings ELSE settings

\* settings.username = settings.username || settings.email
UsernameOrEmail(settings) ==
    IF TruthyText(settings, "username") THEN settings
    ELSE IF Has(settings, "email") THEN ("username" :> settings["email"]) @@ settings
    ELSE [k \in DOMAIN settings \ {"username"} |-> settings[k]]

\* a port is truthy unless it is undefined, 0 or ''
TruthyPort(settings, k) ==
    Has(settings, k) /\ ~(settings[k].t = "number" /\ settings[k].v = 0)

\* if (settings[k]) settings[k] /= 1
CoercePort(settings, k) ==
    IF TruthyPort(settings, k) THEN (k :> PortNumber(settings[k].v)) @@ settings
    ELSE settings

\* if (label && label.includes('@')) label = emailAddress
FinalLabel(a) == IF "@" \in Range(a.label) THEN a.emailAddress ELSE a.label

\* the finalizer with the id computed before the hosts are trimmed
FinalizedIdBeforeTrim(a) ==
    LET trimmed == TrimHost(TrimHost(a.settings, "imap_host"), "smtp_host")
    IN  [a EXCEPT
            !.settings = CoercePort(CoercePort(UsernameOrEmail(trimmed), "imap_port"),
                                    "smtp_port"),
            !.id = idForAccount(a.emailAddress, a.settings),
            !.label = FinalLabel(a)]

\* the account as finalizeAndValidateAccount hands it to MailsyncProcess.test
Finalized(a) ==
    LET trimmed == TrimHost(TrimHost(a.settings, "imap_host"), "smtp_host")
    IN  [a EXCEPT
            !.settings = CoercePort(CoercePort(UsernameOrEmail(trimmed), "imap_port"),
                                    "smtp_port"),
            !.id = idForAccount(a.emailAddress, trimmed),
            !.label = FinalLabel(a)]

\* settings of accounts handed to the finalizer by the settings forms
FinalizeSettings == {
    ("imap_host" :> <<" ", "imap.isp.example", " ">>) @@ ("imap_port" :> PortString(993)) @@
        ("imap_username" :> <<"ann">>) @@ ("imap_security" :> "SSL / TLS") @@
        ("smtp_host" :> <<"smtp.isp.example", " ">>) @@ ("smtp_port" :> PortString(587)) @@
        ("smtp_username" :> <<"ann">>) @@ ("smtp_security" :> "STARTTLS"),
    ("imap_host" :> <<"imap.isp.example">>) @@ ("imap_port" :> PortNumber(143)) @@
        ("imap_username" :> <<"ann", "@", "startup", ".example">>) @@
        ("smtp_host" :> <<" ", "smtp.isp.example">>) @@ ("smtp_port" :> PortNumber(25)) @@
        ("smtp_username" :> <<"ann", "@", "startup", ".example">>),
    ("imap_host" :> <<" ">>) @@ ("imap_username" :> <<"ann">>) @@
        ("smtp_port" :> PortString(465)) @@ ("email" :> <<"ann", "@", "startup", ".example">>),
    ("refresh_token" :> "r1") @@ ("username" :> <<"ann">>) }

\* accounts handed to the finalizer: new ones and ones authenticated before
FinalizeAccounts ==
    [emailAddress : {<<"ann", "@", "startup", ".example">>, <<"Bob", "@", "Corp", ".example">>},
     provider     : {<<"imap">>},
     settings     : FinalizeSettings \cup {s \in SettingsChoices : s # EmptyObject},
     id           : {<<>>, <<"sha256/8", "stale">>},
     label        : {<<"Work">>, <<"ann", "@", "old-address">>},
     authedAt     : {"null", "earlier"}]

\* a caller hands in an account: it is normalized, its id recomputed, and
\* MailsyncProcess.test is awaited
FinalizeCall ==
    /\ pc = "idle"
    /\ \E a \in FinalizeAccounts : account' = Finalized(a)
    /\ caller' = "finalize"
    /\ pc' = "test"
    /\ log' = <<"validate">>
    /\ UNCHANGED <<populated, mxRecords, autoConfig, containerFolderDefault, outcome,
                   oauth, idOut>>

\* proc.test() settles: on success authedAt is stamped and the account
\* returned, on failure the validator's error leaves the call
TestDone ==
    /\ pc = "test"
    /\ \E ok \in BOOLEAN :
          IF ok
          THEN /\ account' = [account EXCEPT !.authedAt = "now"]
               /\ pc' = "done"
               /\ outcome' = Returned(caller)
          ELSE /\ account' = account
               /\ Throws("validator")
    /\ UNCHANGED <<caller, populated, mxRecords, autoConfig, containerFolderDefault, log,
                   oauth, idOut>>

NextFinalize ==
    \/ FinalizeCall
    \/ TestDone

SpecFinalize == Init /\ [][NextFinalize]_vars

\* the validator is running or has settled
ValidatorInvoked == "validate" \in Range(log)

HostTrimmed(k) ==
    Has(account.settings, k) => account.settings[k] = Trim(account.settings[k])

PortIsNumber(k) ==
    Has(account.settings, k) => account.settings[k].t = "number"

\* C9: the validator is invoked only after the hosts are trimmed, the ports
\* are numbers and the id is recomputed from the normalized settings; when the
\* validator fails the call fails with its error and authedAt is not stamped;
\* authedAt is stamped only after the validator succeeded, and the id of the
\* account returned is idForAccount(emailAddress, settings).
C9_ValidateAfterNormalize ==
    /\ ValidatorInvoked =>
          /\ HostTrimmed("imap_host") /\ HostTrimmed("smtp_host")
          /\ PortIsNumber("imap_port") /\ PortIsNumber("smtp_port")
          /\ account.id = idForAccount(account.emailAddress, account.settings)
    /\ outcome.kind = "threw" => account.authedAt # "now"
    /\ (outcome.kind = "threw" /\ ValidatorInvoked) => outcome.error = "validator"
    /\ account.authedAt = "now" =>
          /\ ValidatorInvoked
          /\ pc = "done" /\ outcome.kind = "returned"

\* C9 witness: an account whose hosts came padded and whose ports came as
\* text was validated and stamped
C9_Witness ==
    /\ pc = "done" /\ outcome.kind = "returned" /\ account.authedAt = "now"
    /\ Has(account.settings, "imap_port") /\ Has(account.settings, "smtp_host")
    /\ account.settings["imap_host"] = <<"imap.isp.example">>
    /\ account.settings["smtp_host"] = <<"smtp.isp.example">>
    /\ account.settings["imap_port"] = PortNumber(993)
    /\ account.id = Sha256Hex8(<<"ann", "@", "startup", ".example", "{",
                      "\"", "imap_username", "\"", ":", "\"", "ann", "\"", ",",
                      "\"", "imap_host", "\"", ":", "\"", "imap.isp.example", "\"", ",",
                      "\"", "smtp_username", "\"", ":", "\"", "ann", "\"", ",",
                      "\"", "smtp_host", "\"", ":", "\"", "smtp.isp.example", "\"", "}">>)

----------------------------------------------------------------------------
(* The OAuth account builders *)

\* what the token endpoint answers: a 2xx with the tokens, or a non-2xx
TokenResponses == { [state |-> "ok", refresh_token |-> "r1"], [state |-> "failed"] }

\* the response taken whatever its status
TokenAcceptedAlways(resp) == TRUE

\* fetchPostWithFormBody: if (!resp.ok) throw
TokenAccepted(resp) == resp.state = "ok"

GmailProfiles == {
    ("name" :> "Ann") @@ ("email" :> <<"ann", "@", "googlemail", ".com">>),
    ("name" :> "Ann") @@ ("email" :> <<"ann", "@", "startup", ".example">>) }

\* a Graph profile names the mailbox in `mail`, when the account has one
MicrosoftProfiles == {
    ("displayName" :> "Bob") @@ ("mail" :> <<"Bob", "@", "Corp", ".example">>),
    ("displayName" :> "Ann") @@ ("mail" :> <<"ann", "@", "startup", ".example">>),
    ("displayName" :> "Eve") }

\* what the profile endpoint answers the builder
ProfileResponses ==
    {[state |-> "failed"]} \cup
    {[state |-> "ok", me |-> me] :
        me \in IF caller = "gmail" THEN GmailProfiles ELSE MicrosoftProfiles}

\* `${me.email}` in the builders' call of idForAccount
MeEmail(me) == IF Has(me, "email") THEN me["email"] ELSE <<"undefined">>

\* the address the builder makes the Account with
ProfileAddress(me) == IF caller = "gmail" THEN me["email"] ELSE me["mail"]

\* buildGmailAccountFromAuthResponse(code): the token exchange is awaited
GmailCall ==
    /\ pc = "idle"
    /\ caller' = "gmail"
    /\ pc' = "token"
    /\ log' = <<"token">>
    /\ UNCHANGED <<account, populated, mxRecords, autoConfig, containerFolderDefault,
                   outcome, oauth, idOut>>

\* buildMicrosoftAccountFromAuthResponse(code, provider)
MicrosoftCall ==
    /\ pc = "idle"
    /\ caller' \in {"outlook", "office365"}
    /\ pc' = "token"
    /\ log' = <<"token">>
    /\ UNCHANGED <<account, populated, mxRecords, autoConfig, containerFolderDefault,
                   outcome, oauth, idOut>>

\* the token exchange ends: a non-2xx throws, otherwise the profile is fetched
TokenDone ==
    /\ pc = "token"
    /\ \E resp \in TokenResponses :
          /\ oauth' = [oauth EXCEPT !.token = resp]
          /\ IF TokenAccepted(resp)
             THEN pc' = "profile" /\ log' = Append(log, "profile") /\ outcome' = outcome
             ELSE Throws("token") /\ log' = log
    /\ UNCHANGED <<caller, account, populated, mxRecords, autoConfig,
                   containerFolderDefault, idOut>>

\* the profile fetch ends: a non-2xx throws, a Microsoft profile without mail
\* throws, otherwise the Account is made and expandAccountWithCommonSettings
\* called, which awaits the MX lookup
ProfileDone ==
    /\ pc = "profile"
    /\ \E resp \in ProfileResponses :
          /\ oauth' = [oauth EXCEPT !.profile = resp]
          /\ IF resp.state # "ok"
             THEN Throws("profile") /\ UNCHANGED <<account, log>>
             ELSE IF caller # "gmail" /\ ~TruthyText(resp.me, "mail")
             THEN Throws("no-mailbox") /\ UNCHANGED <<account, log>>
             ELSE /\ account' =
                       [emailAddress |-> ProfileAddress(resp.me),
                        provider     |-> <<caller>>,
                        settings     |-> ("refresh_client_id" :> caller) @@
                                         ("refresh_token" :> oauth.token.refresh_token),
                        id           |-> <<>>,
                        label        |-> ProfileAddress(resp.me),
                        authedAt     |-> "null"]
                  /\ log' = Append(log, "mx")
                  /\ pc' = "mx"
                  /\ outcome' = outcome
    /\ UNCHANGED <<caller, populated, mxRecords, autoConfig, containerFolderDefault, idOut>>

\* expandAccountWithCommonSettings returned: the builder assigns the id and
\* calls finalizeAndValidateAccount, which awaits MailsyncProcess.test
BuilderFinalize ==
    /\ pc = "expanded"
    /\ account' =
          Finalized([populated EXCEPT
                        !.id = idForAccount(MeEmail(oauth.profile.me), populated.settings)])
    /\ log' = log \o <<"id", "validate">>
    /\ pc' = "test"
    /\ UNCHANGED <<caller, populated, mxRecords, autoConfig, containerFolderDefault,
                   outcome, oauth, idOut>>

NextOAuth ==
    \/ GmailCall
    \/ MicrosoftCall
    \/ TokenDone
    \/ ProfileDone
    \/ MxResolved(DnsAnswers)
    \/ Fetch1Done(TRUE)
    \/ Fetch2Done(TRUE)
    \/ BuilderFinalize
    \/ TestDone

SpecOAuth == Init /\ [][NextOAuth]_vars

\* the place of a step in the builders' order
Rank(step) ==
    CASE step = "token"      -> 1
      [] step = "profile"    -> 2
      [] step = "mx"         -> 3
      [] step = "structured" -> 4
      [] step = "fetch1"     -> 5
      [] step = "fetch2"     -> 6
      [] step = "preset"     -> 7
      [] step = "id"         -> 8
      [] step = "validate"   -> 9

\* C10: a builder runs token exchange, profile fetch, settings synthesis,
\* identity assignment and validation strictly in this order; a failure of a
\* step (token non-2xx, profile non-2xx, Microsoft profile without mailbox,
\* validator failure) reaches the caller, no later step runs and no account is
\* returned; an account is returned only when every step succeeded.
C10_BuilderStepsInOrder ==
    /\ \A i, j \in 1..Len(log) : i < j => Rank(log[i]) < Rank(log[j])
    /\ oauth.token.state = "failed" =>
          log = <<"token">> /\ pc = "done" /\ outcome = Thrown("token")
    /\ oauth.profile.state = "failed" =>
          log = <<"token", "profile">> /\ pc = "done" /\ outcome = Thrown("profile")
    /\ (oauth.profile.state = "ok" /\ caller # "gmail" /\
        ~Has(oauth.profile.me, "mail")) =>
          log = <<"token", "profile">> /\ pc = "done" /\ outcome = Thrown("no-mailbox")
    /\ outcome.kind = "threw" =>
          /\ pc = "done"
          /\ account.authedAt # "now"
          /\ outcome.error = "validator" <=> "validate" \in Range(log)
    /\ outcome.kind = "returned" =>
          /\ {"token", "profile", "mx", "id", "validate"} \subseteq Range(log)
          /\ oauth.token.state = "ok" /\ oauth.profile.state = "ok"
          /\ account.authedAt = "now"
          /\ account.id = idForAccount(account.emailAddress, account.settings)

\* C10 witness: a Microsoft builder returned an account whose settings came
\* from the preset branch after both autoconfig fetches failed
C10_Witness ==
    /\ pc = "done" /\ outcome = Returned("office365")
    /\ log = <<"token", "profile", "mx", "structured", "fetch1", "fetch2", "preset",
               "id", "validate">>
    /\ account.authedAt = "now"

----------------------------------------------------------------------------
(* idForAccount on pairs of inputs *)

IdEmails == { <<"a", "@", "x">>, <<"a", "@", "x", "{">>, <<"b", "@", "x">> }

\* {k: v} for v in values, and {} for a key left undefined
Optional(k, values) == {EmptyObject} \cup {k :> v : v \in values}

\* settings that differ in the four identity fields, among them a username
\* that spells the JSON of a host, and in fields that are not part of the id
IdSettings ==
    { a @@ b @@ c @@ d @@ e :
        a \in Optional("imap_username",
                       { <<"a">>, <<"a", "\"", ",", "\"", "imap_host", "\"", ":", "\"", "h">> }),
        b \in Optional("imap_host", { <<"h">> }),
        c \in Optional("smtp_username", { <<"a">> }),
        d \in {"smtp_host" :> <<"h">>, "smtp_host" :> <<"h", "\\">>},
        e \in { EmptyObject,
                "imap_port" :> PortNumber(993),
                ("imap_port" :> PortNumber(143)) @@ ("imap_password" :> "pw") @@
                    ("container_folder" :> "Folders") @@ ("refresh_token" :> "r1") } }

IdInput(e, s) ==
    [emailAddress |-> e, settings |-> s,
     idString |-> IdString(e, s), id |-> idForAccount(e, s)]

\* idForAccount is called on two inputs
IdForAccountCalls ==
    /\ pc = "idle"
    /\ \E e1 \in IdEmails, e2 \in IdEmails, s1 \in IdSettings, s2 \in IdSettings :
          idOut' = <<IdInput(e1, s1), IdInput(e2, s2)>>
    /\ pc' = "done"
    /\ UNCHANGED <<caller, account, populated, mxRecords, autoConfig,
                   containerFolderDefault, log, outcome, oauth>>

NextId == IdForAccountCalls

SpecId == Init /\ [][NextId]_vars

\* the two inputs agree on the address and on the four identity fields
SameIdentity(a, b) ==
    /\ a.emailAddress = b.emailAddress
    /\ \A k \in {"imap_username", "imap_host", "smtp_username", "smtp_host"} :
          /\ Has(a.settings, k) <=> Has(b.settings, k)
          /\ Has(a.settings, k) => a.settings[k] = b.settings[k]

\* C6: the id is a function of the address and of imap_username, imap_host,
\* smtp_username and smtp_host alone: inputs that agree on them get the same
\* id whatever their other fields are, and inputs that differ in one of them
\* feed different texts to the digest.
C6_IdOfIdentityFieldsOnly ==
    idOut # <<>> =>
        /\ SameIdentity(idOut[1], idOut[2]) => idOut[1].id = idOut[2].id
        /\ ~SameIdentity(idOut[1], idOut[2]) => idOut[1].idString # idOut[2].idString

\* C6 witness: two inputs that differ in port, password, container folder and
\* OAuth token only
C6_Witness ==
    /\ idOut # <<>>
    /\ SameIdentity(idOut[1], idOut[2])
    /\ ~Has(idOut[1].settings, "imap_port")
    /\ Has(idOut[2].settings, "refresh_token")
    /\ Has(idOut[1].settings, "imap_username")
    /\ idOut[1].id = idOut[2].id

====
